---------------------------- MODULE Spec2Model ----------------------------
(***************************************************************************)
(* CCodemerge v1.2: recursive scan of the working directory, classification*)
(* of the files found, per-category sort and merge into merged.txt.        *)
(*                                                                         *)
(* A C string is a sequence of one-character strings; Ord gives each       *)
(* character its byte value, so that strcmp orders strings as the C        *)
(* library does.                                                           *)
(***************************************************************************)
EXTENDS Integers, Sequences, FiniteSets, Bags, TLC

(***************************************************************************)
(* Bytes and <string.h>                                                    *)
(***************************************************************************)
Ord ==
  "-" :> 45 @@ "." :> 46 @@ "/" :> 47 @@ "0" :> 48 @@ "1" :> 49 @@ "2" :> 50 @@
  "3" :> 51 @@ "4" :> 52 @@ "5" :> 53 @@ "6" :> 54 @@ "7" :> 55 @@ "8" :> 56 @@
  "9" :> 57 @@ "A" :> 65 @@ "B" :> 66 @@ "C" :> 67 @@ "D" :> 68 @@ "E" :> 69 @@
  "F" :> 70 @@ "G" :> 71 @@ "H" :> 72 @@ "I" :> 73 @@ "J" :> 74 @@ "K" :> 75 @@
  "L" :> 76 @@ "M" :> 77 @@ "N" :> 78 @@ "O" :> 79 @@ "P" :> 80 @@ "Q" :> 81 @@
  "R" :> 82 @@ "S" :> 83 @@ "T" :> 84 @@ "U" :> 85 @@ "V" :> 86 @@ "W" :> 87 @@
  "X" :> 88 @@ "Y" :> 89 @@ "Z" :> 90 @@ "_" :> 95 @@ "a" :> 97 @@ "b" :> 98 @@
  "c" :> 99 @@ "d" :> 100 @@ "e" :> 101 @@ "f" :> 102 @@ "g" :> 103 @@ "h" :> 104 @@
  "i" :> 105 @@ "j" :> 106 @@ "k" :> 107 @@ "l" :> 108 @@ "m" :> 109 @@ "n" :> 110 @@
  "o" :> 111 @@ "p" :> 112 @@ "q" :> 113 @@ "r" :> 114 @@ "s" :> 115 @@ "t" :> 116 @@
  "u" :> 117 @@ "v" :> 118 @@ "w" :> 119 @@ "x" :> 120 @@ "y" :> 121 @@ "z" :> 122

\* strlen(s)
strlen(s) == Len(s)

\* The string that starts at 1-based position i of s (the pointer s + i - 1).
StrFrom(s, i) == SubSeq(s, i, Len(s))

\* strcmp(a, b): the sign of the first differing byte, the terminating NUL
\* comparing below every character.
RECURSIVE strcmp(_, _)
strcmp(a, b) ==
  IF a = <<>> /\ b = <<>> THEN 0
  ELSE IF a = <<>> THEN -1
  ELSE IF b = <<>> THEN 1
  ELSE IF Ord[Head(a)] < Ord[Head(b)] THEN -1
  ELSE IF Ord[Head(a)] > Ord[Head(b)] THEN 1
  ELSE strcmp(Tail(a), Tail(b))

\* strrchr(s, c): the position of the last c in s, 0 for NULL.
strrchr(s, c) ==
  LET hits == {i \in 1..Len(s) : s[i] = c}
  IN  IF hits = {} THEN 0 ELSE CHOOSE i \in hits : \A j \in hits : j <= i

(***************************************************************************)
(* Constants of the program                                                *)
(***************************************************************************)
MAX_PATH_LENGTH == 4096

CAT_MAKEFILE == 0
CAT_MESON == 1
CAT_CMAKE == 2
CAT_AUTOTOOLS == 3
CAT_NINJA == 4
CAT_BAZEL == 5
CAT_QMAKE == 6
CAT_SCONS == 7
CAT_HEADER == 8
CAT_SOURCE == 9
CAT_COUNT == 10

Categories == 0..(CAT_COUNT - 1)

BUILD_FILES ==
  << [filename |-> <<"M","a","k","e","f","i","l","e">>, category |-> CAT_MAKEFILE],
     [filename |-> <<"m","a","k","e","f","i","l","e">>, category |-> CAT_MAKEFILE],
     [filename |-> <<"G","N","U","m","a","k","e","f","i","l","e">>, category |-> CAT_MAKEFILE],
     [filename |-> <<"m","e","s","o","n",".","b","u","i","l","d">>, category |-> CAT_MESON],
     [filename |-> <<"m","e","s","o","n","_","o","p","t","i","o","n","s",".","t","x","t">>, category |-> CAT_MESON],
     [filename |-> <<"C","M","a","k","e","L","i","s","t","s",".","t","x","t">>, category |-> CAT_CMAKE],
     [filename |-> <<"C","M","a","k","e","C","a","c","h","e",".","t","x","t">>, category |-> CAT_CMAKE],
     [filename |-> <<".","c","m","a","k","e">>, category |-> CAT_CMAKE],
     [filename |-> <<"c","o","n","f","i","g","u","r","e",".","a","c">>, category |-> CAT_AUTOTOOLS],
     [filename |-> <<"c","o","n","f","i","g","u","r","e",".","i","n">>, category |-> CAT_AUTOTOOLS],
     [filename |-> <<"M","a","k","e","f","i","l","e",".","a","m">>, category |-> CAT_AUTOTOOLS],
     [filename |-> <<"M","a","k","e","f","i","l","e",".","i","n">>, category |-> CAT_AUTOTOOLS],
     [filename |-> <<"b","u","i","l","d",".","n","i","n","j","a">>, category |-> CAT_NINJA],
     [filename |-> <<".","n","i","n","j","a">>, category |-> CAT_NINJA],
     [filename |-> <<"W","O","R","K","S","P","A","C","E">>, category |-> CAT_BAZEL],
     [filename |-> <<"B","U","I","L","D">>, category |-> CAT_BAZEL],
     [filename |-> <<"B","U","I","L","D",".","b","a","z","e","l">>, category |-> CAT_BAZEL],
     [filename |-> <<".","b","z","l">>, category |-> CAT_BAZEL],
     [filename |-> <<".","p","r","o">>, category |-> CAT_QMAKE],
     [filename |-> <<".","p","r","i">>, category |-> CAT_QMAKE],
     [filename |-> <<"S","C","o","n","s","t","r","u","c","t">>, category |-> CAT_SCONS],
     [filename |-> <<"S","C","o","n","s","c","r","i","p","t">>, category |-> CAT_SCONS] >>

BUILD_FILES_COUNT == Len(BUILD_FILES)

EXCLUDED_DIRS ==
  << <<".","c","a","c","h","e">>,
     <<".","e","n","v">>,
     <<".","i","d","e","a">>,
     <<".","v","e","n","v">>,
     <<"b","u","i","l","d">>,
     <<"b","u","i","l","d","d","i","r">>,
     <<"c","m","a","k","e","-","b","u","i","l","d","-","d","e","b","u","g">>,
     <<"c","m","a","k","e","-","b","u","i","l","d","-","r","e","l","e","a","s","e">>,
     <<"d","i","s","t">>,
     <<"e","n","v">>,
     <<"n","o","d","e","_","m","o","d","u","l","e","s">>,
     <<"t","a","r","g","e","t">>,
     <<"v","e","n","v">>,
     <<".","g","i","t">>,
     <<".","v","s","c","o","d","e">>,
     <<".","v","s">>,
     <<".","p","y","t","e","s","t","_","c","a","c","h","e">>,
     <<"_","_","p","y","c","a","c","h","e","_","_">>,
     <<"o","u","t">>,
     <<"b","i","n">>,
     <<"o","b","j">>,
     <<"D","e","b","u","g">>,
     <<"R","e","l","e","a","s","e">>,
     <<"x","6","4">>,
     <<"x","8","6">>,
     <<"d","e","p","s">>,
     <<"v","e","n","d","o","r">>,
     <<"e","x","t","e","r","n","a","l">>,
     <<"t","h","i","r","d","_","p","a","r","t","y">>,
     <<".","g","i","t","h","u","b">>,
     <<".","g","i","t","l","a","b">>,
     <<"c","o","v","e","r","a","g","e">>,
     <<"d","o","c","s","/","_","b","u","i","l","d">>,
     <<"l","o","g","s">> >>

EXCLUDED_DIRS_COUNT == Len(EXCLUDED_DIRS)

(***************************************************************************)
(* Classifier                                                              *)
(***************************************************************************)
\* compare_strings, the qsort comparator
compare_strings(a, b) == strcmp(a, b)

\* A variant that compares only the first strlen(entry) bytes (strncmp).
is_excluded_dir_prefix(dirname) ==
  \E i \in 1..EXCLUDED_DIRS_COUNT :
     /\ Len(dirname) >= Len(EXCLUDED_DIRS[i])
     /\ strcmp(SubSeq(dirname, 1, Len(EXCLUDED_DIRS[i])), EXCLUDED_DIRS[i]) = 0

is_excluded_dir(dirname) ==
  \E i \in 1..EXCLUDED_DIRS_COUNT : strcmp(dirname, EXCLUDED_DIRS[i]) = 0

has_extension(filename, ext) ==
  LET dot == strrchr(filename, ".")
  IN  dot # 0 /\ strcmp(StrFrom(filename, dot), ext) = 0

ends_with(str, suffix) ==
  LET str_len == strlen(str)
      suffix_len == strlen(suffix)
  IN  IF suffix_len > str_len THEN FALSE
      ELSE strcmp(StrFrom(str, str_len - suffix_len + 1), suffix) = 0

\* The header and source extensions tested after the build-file table.
HeaderOrSource(filename) ==
  IF \/ has_extension(filename, <<".","h">>)
     \/ has_extension(filename, <<".","h","p","p">>)
     \/ has_extension(filename, <<".","h","x","x">>)
     \/ has_extension(filename, <<".","h","h">>)
  THEN CAT_HEADER
  ELSE IF \/ has_extension(filename, <<".","c">>)
          \/ has_extension(filename, <<".","c","p","p">>)
          \/ has_extension(filename, <<".","c","x","x">>)
          \/ has_extension(filename, <<".","c","c">>)
  THEN CAT_SOURCE
  ELSE CAT_COUNT

\* The loop over BUILD_FILES from index i on (1-based), then the extensions.
RECURSIVE categorize_from(_, _)
categorize_from(filename, i) ==
  IF i > BUILD_FILES_COUNT THEN HeaderOrSource(filename)
  ELSE IF strcmp(filename, BUILD_FILES[i].filename) = 0
       THEN BUILD_FILES[i].category
  ELSE IF /\ BUILD_FILES[i].filename[1] = "."
          /\ ends_with(filename, BUILD_FILES[i].filename)
       THEN BUILD_FILES[i].category
  ELSE categorize_from(filename, i + 1)

\* A variant of the loop without the suffix test.
RECURSIVE categorize_exact_only(_, _)
categorize_exact_only(filename, i) ==
  IF i > BUILD_FILES_COUNT THEN HeaderOrSource(filename)
  ELSE IF strcmp(filename, BUILD_FILES[i].filename) = 0
       THEN BUILD_FILES[i].category
  ELSE categorize_exact_only(filename, i + 1)

categorize_file_exact_only(filename) == categorize_exact_only(filename, 1)

categorize_file(filename) == categorize_from(filename, 1)

(***************************************************************************)
(* Exclusion filter                                                        *)
(***************************************************************************)
\* strtok(s, "/"): skip the leading delimiters, the token runs to the next one.
RECURSIVE SkipDelims(_)
SkipDelims(s) ==
  IF s # <<>> /\ Head(s) = "/" THEN SkipDelims(Tail(s)) ELSE s

RECURSIVE TokenLen(_)
TokenLen(s) ==
  IF s = <<>> \/ Head(s) = "/" THEN 0 ELSE 1 + TokenLen(Tail(s))

\* The while loop of contains_excluded_dir over the tokens of rest.
RECURSIVE excluded_from(_)
excluded_from(rest) ==
  LET s == SkipDelims(rest)
  IN  IF s = <<>> THEN FALSE
      ELSE LET n == TokenLen(s)
               token == SubSeq(s, 1, n)
           IN  IF is_excluded_dir(token) THEN TRUE
               ELSE excluded_from(StrFrom(s, n + 1))

\* Only the first two names of the path are tested.
contains_excluded_dir_toplevel(path) ==
  LET s1 == SkipDelims(path)
      n1 == TokenLen(s1)
      s2 == SkipDelims(StrFrom(s1, n1 + 1))
      n2 == TokenLen(s2)
  IN  is_excluded_dir(SubSeq(s1, 1, n1)) \/ is_excluded_dir(SubSeq(s2, 1, n2))

contains_excluded_dir(path) == excluded_from(path)

(***************************************************************************)
(* The file system the program runs on                                     *)
(*                                                                         *)
(* A node is named by the sequence of names from the working directory     *)
(* down to it.  fs maps every existing node to its kind, its size, the     *)
(* target of a symbolic link and whether it may be opened for reading.     *)
(***************************************************************************)
n_Makefile == <<"M","a","k","e","f","i","l","e">>
n_src      == <<"s","r","c">>
n_main_c   == <<"m","a","i","n",".","c">>
n_a_c      == <<"a",".","c">>
n_a_h      == <<"a",".","h">>
n_e_h      == <<"e",".","h">>
n_build    == <<"b","u","i","l","d">>
n_gen_c    == <<"g","e","n",".","c">>
n_docs     == <<"d","o","c","s">>
n__build   == <<"_","b","u","i","l","d">>
n_conf_c   == <<"c","o","n","f",".","c">>
n_broken   == <<"b","r","o","k","e","n">>
n_nowhere  == <<"n","o","w","h","e","r","e">>
n_l_c      == <<"l",".","c">>
n_lnk      == <<"l","n","k">>
n_up       == <<"u","p">>
n_hid_h    == <<".","x",".","h">>
n_alias_c  == <<"a","l","i","a","s",".","c">>
n_hid_cmake == <<".","x",".","c","m","a","k","e">>
n_vis_c    == <<"v","i","s",".","c">>
n_loop     == <<"l","o","o","p">>
n_p_c      == <<"p",".","c">>
n_priv     == <<"p","r","i","v">>
n_merged   == <<"m","e","r","g","e","d",".","t","x","t">>
n_dot      == <<".">>
n_dotdot   == <<".",".">>

\* The absolute path of the working directory, as a string and as names.
Cwd     == <<"/","w">>
CwdSegs == << <<"w">> >>

NoEnt == <<"ENOENT">>
NULL  == <<"NULL">>

File(at, size)   == [at |-> at, kind |-> "file", size |-> size, target |-> <<>>, perm |-> TRUE]
Locked(at, size) == [at |-> at, kind |-> "file", size |-> size, target |-> <<>>, perm |-> FALSE]
Link(at, target) == [at |-> at, kind |-> "link", size |-> 0, target |-> target, perm |-> TRUE]
NoReadDir(at)    == [at |-> at, kind |-> "dir", size |-> 0, target |-> <<>>, perm |-> FALSE]

\* The entries a tree is made of; the directories above an entry exist with it.
Universe ==
  { File(<<n_Makefile>>, 1),
    File(<<n_src, n_main_c>>, 1),
    File(<<n_src, n_a_c>>, 1),
    File(<<n_src, n_a_h>>, 1),
    File(<<n_src, n_e_h>>, 0),
    File(<<n_src, n_build, n_gen_c>>, 1),
    File(<<n_docs, n__build, n_conf_c>>, 1),
    File(<<n_hid_h>>, 1),
    File(<<n_hid_cmake>>, 1),
    Locked(<<n_src, n_p_c>>, 1),
    NoReadDir(<<n_priv>>),
    Link(<<n_broken>>, <<".","/">> \o n_nowhere),
    Link(<<n_src, n_l_c>>, n_build \o <<"/">> \o n_gen_c),
    Link(<<n_lnk>>, n_src),
    Link(<<n_src, n_up>>, n_dotdot),
    Link(<<n_alias_c>>, Cwd \o <<"/">> \o n_src \o <<"/">> \o n_a_h),
    Link(<<n_vis_c>>, n_hid_h),
    Link(<<n_loop>>, n_loop) }

\* The number of entries of a tree.
MaxEntries == 3

Trees == {t \in SUBSET Universe : Cardinality(t) <= MaxEntries}

Prefixes(p) == {SubSeq(p, 1, k) : k \in 0..(Len(p) - 1)}

DirNode == [kind |-> "dir", size |-> 0, target |-> <<>>, perm |-> TRUE]
MergedNode == [kind |-> "file", size |-> 1, target |-> <<>>, perm |-> TRUE]

\* The file system holding tree t.
TreeFs(t) ==
  LET dirs  == {<<>>} \cup UNION {Prefixes(e.at) : e \in t}
      nodes == dirs \cup {e.at : e \in t}
  IN  [p \in nodes |->
         IF p \in dirs THEN DirNode
         ELSE LET e == CHOOSE x \in t : x.at = p
              IN  [kind |-> e.kind, size |-> e.size, target |-> e.target, perm |-> e.perm]]

\* fopen("merged.txt", "w") creates the file in the working directory.
WithMerged(F) == [p \in DOMAIN F \cup {<<n_merged>>} |->
                    IF p = <<n_merged>> THEN MergedNode ELSE F[p]]

\* The names a path string is made of (empty components dropped).
RECURSIVE PathSegs(_)
PathSegs(path) ==
  LET s == SkipDelims(path)
  IN  IF s = <<>> THEN <<>>
      ELSE LET n == TokenLen(s)
           IN  <<SubSeq(s, 1, n)>> \o PathSegs(StrFrom(s, n + 1))

IsPrefixOf(a, b) == Len(a) <= Len(b) /\ SubSeq(b, 1, Len(a)) = a

\* The kernel's path walk from node cur along the names rest; a symbolic link
\* is followed when it is not the last name, or when follow is set.  fuel
\* bounds the links followed (ELOOP).
RECURSIVE Walk(_, _, _, _, _)
Walk(F, cur, rest, follow, fuel) ==
  IF rest = <<>> THEN cur
  ELSE IF F[cur].kind # "dir" THEN NoEnt
  ELSE LET h == Head(rest)
           t == Tail(rest)
           nxt == Append(cur, h)
       IN  IF h = n_dot THEN Walk(F, cur, t, follow, fuel)
           ELSE IF h = n_dotdot
                THEN IF cur = <<>> THEN NoEnt
                     ELSE Walk(F, SubSeq(cur, 1, Len(cur) - 1), t, follow, fuel)
           ELSE IF nxt \notin DOMAIN F THEN NoEnt
           ELSE IF F[nxt].kind = "link" /\ (t # <<>> \/ follow)
                THEN LET tg == F[nxt].target
                         ts == PathSegs(tg)
                     IN  IF fuel = 0 THEN NoEnt
                         ELSE IF tg # <<>> /\ tg[1] = "/"
                              THEN IF IsPrefixOf(CwdSegs, ts)
                                   THEN Walk(F, <<>>,
                                             SubSeq(ts, Len(CwdSegs) + 1, Len(ts)) \o t,
                                             follow, fuel - 1)
                                   ELSE NoEnt
                         ELSE Walk(F, cur, ts \o t, follow, fuel - 1)
           ELSE Walk(F, nxt, t, follow, fuel)

Resolve(F, path, follow) ==
  LET segs == PathSegs(path)
      fuel == Cardinality(DOMAIN F)
  IN  IF path # <<>> /\ path[1] = "/"
      THEN IF IsPrefixOf(CwdSegs, segs)
           THEN Walk(F, <<>>, SubSeq(segs, Len(CwdSegs) + 1, Len(segs)), follow, fuel)
           ELSE NoEnt
      ELSE Walk(F, <<>>, segs, follow, fuel)

\* lstat(2) and stat(2): the node a path names, NoEnt on failure.
Lstat(F, path) == Resolve(F, path, FALSE)
Stat(F, path)  == Resolve(F, path, TRUE)

\* The absolute path of a node.
RECURSIVE JoinSegs(_)
JoinSegs(segs) ==
  IF segs = <<>> THEN <<>> ELSE <<"/">> \o Head(segs) \o JoinSegs(Tail(segs))

AbsPath(node) == Cwd \o JoinSegs(node)

\* realpath(3): the canonical absolute path, NULL on failure.
realpath(F, path) ==
  LET n == Stat(F, path) IN IF n = NoEnt THEN NULL ELSE AbsPath(n)

\* readdir(3): the names in a directory ("." and ".." are skipped by the caller).
Children(F, d) ==
  {p[Len(p)] : p \in {q \in DOMAIN F : Len(q) = Len(d) + 1 /\ IsPrefixOf(d, q)}}

(***************************************************************************)
(* State                                                                   *)
(***************************************************************************)
VARIABLES
  fs,           \* the file system (merged.txt included once it exists)
  merged,       \* the content of ./merged.txt, NoFile while it does not exist
  pc,           \* where main is: "main", "scan", "merge", "exit"
  stack,        \* the active scan_directory calls: [dir_path, todo]
  scanRet,      \* the value the innermost finished scan_directory call returned
  categories,   \* FileList categories[CAT_COUNT]: the paths of each category
  is_first,     \* main's is_first flag
  total_files,  \* main's total_files
  processed,    \* main's processed
  exitStatus,   \* the status main returned, NoExit before
  reported,     \* the count printed by the completion message, NoExit if none
  outputOpen,   \* 1 while the FILE *output is open
  dirsOpen,     \* the number of open DIR handles
  srcOpen,      \* the number of open source FILE handles
  errlog,       \* the messages written to stderr
  run,          \* which run of the program this is
  prevOut,      \* merged.txt as the previous run left it
  prevExit,     \* the exit status of the previous run
  envFault,     \* an I/O operation failed for a reason outside the tree
  accepted,     \* the entries added to the lists, in the order of discovery:
                \* [via, entry, node, path, cat, link]
  written,      \* the files whose header was written: [cat, path]
  fatal,        \* the fatal errors met by the run
  sinkFailed,   \* the chunks whose write to the output stream failed
  enumerated,   \* the bag of the directories opendir has opened in this run
  input,        \* the argument handed to a pure function
  inputSegs,    \* the names that argument was built from
  result        \* <<v>> once the pure function has returned v

vars == <<fs, merged, pc, stack, scanRet, categories, is_first,
          total_files, processed, exitStatus, reported, outputOpen, dirsOpen,
          srcOpen, errlog, run, prevOut, prevExit, envFault, accepted, written,
          fatal, sinkFailed, enumerated, input, inputSegs, result>>

NoFile == <<"no file">>
NoExit == -1
NoResult == <<>>
EXIT_SUCCESS == 0
EXIT_FAILURE == 1

\* The number of times the program is run on the tree.
MaxRuns == 2

(***************************************************************************)
(* Tree walker                                                             *)
(***************************************************************************)
\* add_to_filelist (allocation failure is not modelled)
add_to_filelist(list, path) == Append(list, path)

\* resolve_symlink: the link's target, made relative to the directory part of
\* path when it does not start with '/'.
resolve_symlink(F, path) ==
  LET resolved == F[Lstat(F, path)].target
      last_slash == strrchr(path, "/")
  IN  IF resolved # <<>> /\ resolved[1] = "/" THEN resolved
      ELSE IF last_slash # 0
           THEN SubSeq(path, 1, last_slash - 1) \o <<"/">> \o resolved
           ELSE resolved

\* A variant of the test that keeps a hidden file of any category.
HiddenAllowed_any(c) == c \in Categories

\* The categories a file whose name starts with '.' is kept for.
HiddenAllowed(c) ==
  c \in {CAT_MAKEFILE, CAT_MESON, CAT_CMAKE, CAT_NINJA, CAT_BAZEL}

Outcome(ret, add, log, faulted) ==
  [ret |-> ret, add |-> add, log |-> log, faulted |-> faulted]

\* process_entry(path, filename, categories): every way the call can end: the
\* value returned, the entry appended (if any), the message logged.  lstat and
\* realpath may also fail for a reason outside the tree (an entry removed
\* while the program runs); such an outcome has faulted set.
process_entry(F, path, filename) ==
  LET ln == Lstat(F, path)
      isLink == F[ln].kind = "link"
      actual_path == IF isLink THEN resolve_symlink(F, path) ELSE NULL
      st == IF isLink THEN Stat(F, actual_path) ELSE ln
      c == categorize_file(filename)
      abs_path == realpath(F, IF actual_path # NULL THEN actual_path ELSE path)
  IN
  {Outcome(-1, <<>>, {<<"Error accessing", path>>}, TRUE)} \cup
  ( IF ln = NoEnt THEN {}
    ELSE IF st = NoEnt
    THEN {Outcome(-1, <<>>, {<<"Error accessing symlink target", actual_path>>}, FALSE)}
    ELSE IF F[st].kind = "dir" THEN {Outcome(0, <<>>, {}, FALSE)}
    ELSE IF c = CAT_COUNT THEN {Outcome(0, <<>>, {}, FALSE)}
    ELSE IF filename[1] = "." /\ ~HiddenAllowed(c) THEN {Outcome(0, <<>>, {}, FALSE)}
    ELSE {Outcome(-1, <<>>, {<<"Error resolving path", path>>}, TRUE)} \cup
         ( IF abs_path = NULL THEN {}
           ELSE {Outcome(0, <<[via |-> path, entry |-> ln, node |-> st,
                               path |-> abs_path, cat |-> c, link |-> isLink]>>,
                         {}, FALSE)} ) )

\* opendir(3) succeeds on a readable directory.
CanOpendir(F, dir_path) ==
  LET n == Stat(F, dir_path)
  IN  n # NoEnt /\ F[n].kind = "dir" /\ F[n].perm

Frame(F, dir_path) ==
  [dir_path |-> dir_path, todo |-> Children(F, Stat(F, dir_path))]

Step(ret, push, add, log, faulted) ==
  [ret |-> ret, push |-> push, add |-> add, log |-> log, faulted |-> faulted]

\* A variant of the loop body whose second test follows symbolic links
\* (stat in place of lstat).
AfterEntry_stat(F, sub_path, r) ==
  IF r.ret = -1 THEN {Step(-1, <<>>, <<>>, r.log, r.faulted)}
  ELSE IF r.faulted THEN {}
  ELSE {Step(0, <<>>, r.add, {<<"Error accessing", sub_path>>}, TRUE)} \cup
       ( IF F[Stat(F, sub_path)].kind = "dir"
         THEN IF CanOpendir(F, sub_path)
              THEN {Step(0, <<Frame(F, sub_path)>>, r.add, {}, FALSE)}
              ELSE {Step(-1, <<>>, r.add, {<<"Error opening", sub_path>>}, FALSE)}
         ELSE {Step(0, <<>>, r.add, {}, FALSE)} )

\* What follows process_entry's return value r in the loop body: the early
\* return, or the second lstat (which may fail for a reason outside the tree)
\* and the recursive call up to its opendir.
AfterEntry(F, sub_path, r) ==
  IF r.ret = -1 THEN {Step(-1, <<>>, <<>>, r.log, r.faulted)}
  ELSE IF r.faulted THEN {}
  ELSE {Step(0, <<>>, r.add, {<<"Error accessing", sub_path>>}, TRUE)} \cup
       ( IF F[Lstat(F, sub_path)].kind = "dir"
         THEN IF CanOpendir(F, sub_path)
              THEN {Step(0, <<Frame(F, sub_path)>>, r.add, {}, FALSE)}
              ELSE {Step(-1, <<>>, r.add, {<<"Error opening", sub_path>>}, FALSE)}
         ELSE {Step(0, <<>>, r.add, {}, FALSE)} )

\* One iteration of scan_directory's readdir loop for the entry d_name, up to
\* the point where the recursive call has opened its directory, in every way
\* it can end: ret = -1 when the iteration returns -1, push the frame of the
\* recursive call.
ScanIteration(F, dir_path, d_name) ==
  LET sub_path == dir_path \o <<"/">> \o d_name
      written_ == strlen(dir_path) + 1 + strlen(d_name)
  IN
  IF d_name = n_dot \/ d_name = n_dotdot THEN {Step(0, <<>>, <<>>, {}, FALSE)}
  ELSE IF written_ >= MAX_PATH_LENGTH
       THEN {Step(0, <<>>, <<>>, {<<"Path too long", sub_path>>}, FALSE)}
  ELSE IF contains_excluded_dir(sub_path) THEN {Step(0, <<>>, <<>>, {}, FALSE)}
  ELSE UNION {AfterEntry(F, sub_path, r) : r \in process_entry(F, sub_path, d_name)}

\* The directories the frames in push are reading, as a bag.
Opened(F, push) ==
  IF push = <<>> THEN EmptyBag ELSE SetToBag({Stat(F, push[1].dir_path)})

AddAll(cats, add) ==
  IF add = <<>> THEN cats
  ELSE [cats EXCEPT ![add[1].cat] = add_to_filelist(@, add[1].path)]

EmptyLists == [c \in Categories |-> <<>>]

\* A variant of main that opens merged.txt for writing before the walk.
MainScan_output_first ==
  /\ pc = "main"
  /\ categories' = EmptyLists
  /\ pc' = "scan"
  /\ fs' = WithMerged(fs)
  /\ merged' = <<>>
  /\ \E ok \in BOOLEAN :
       IF ok /\ CanOpendir(fs, n_dot)
       THEN /\ stack' = <<Frame(fs, n_dot)>>
            /\ dirsOpen' = dirsOpen + 1
            /\ enumerated' = enumerated (+) Opened(fs, <<Frame(fs, n_dot)>>)
            /\ scanRet' = 0
            /\ UNCHANGED <<errlog, envFault, fatal>>
       ELSE /\ stack' = <<>>
            /\ dirsOpen' = dirsOpen
            /\ enumerated' = enumerated
            /\ scanRet' = -1
            /\ errlog' = errlog \cup {<<"Error opening", n_dot>>}
            /\ envFault' = TRUE
            /\ fatal' = fatal \cup {"traversal"}
  /\ UNCHANGED <<is_first, total_files, processed, exitStatus,
                 reported, outputOpen, srcOpen, run, prevOut, prevExit,
                 accepted, written, input, inputSegs, result, sinkFailed>>

\* main: init_filelist on every category, then scan_directory(".") up to its
\* opendir.
MainScan ==
  /\ pc = "main"
  /\ categories' = EmptyLists
  /\ pc' = "scan"
  /\ \E ok \in BOOLEAN :
       IF ok /\ CanOpendir(fs, n_dot)
       THEN /\ stack' = <<Frame(fs, n_dot)>>
            /\ dirsOpen' = dirsOpen + 1
            /\ enumerated' = enumerated (+) Opened(fs, <<Frame(fs, n_dot)>>)
            /\ scanRet' = 0
            /\ UNCHANGED <<errlog, envFault, fatal>>
       ELSE /\ stack' = <<>>
            /\ dirsOpen' = dirsOpen
            /\ enumerated' = enumerated
            /\ scanRet' = -1
            /\ errlog' = errlog \cup {<<"Error opening", n_dot>>}
            /\ envFault' = TRUE
            /\ fatal' = fatal \cup {"traversal"}
  /\ UNCHANGED <<fs, merged, is_first, total_files, processed, exitStatus,
                 reported, outputOpen, srcOpen, run, prevOut, prevExit,
                 accepted, written, input, inputSegs, result, sinkFailed>>

\* scan_directory: readdir returns one more entry and the loop body runs on it.
ScanEntry ==
  /\ pc = "scan" /\ scanRet = 0 /\ stack # <<>>
  /\ LET top == stack[Len(stack)]
     IN  \E d_name \in top.todo :
         \E o \in ScanIteration(fs, top.dir_path, d_name) :
           LET rest == [top EXCEPT !.todo = @ \ {d_name}]
           IN  /\ o.faulted => ~envFault
               /\ stack' = IF o.ret = -1
                           THEN SubSeq(stack, 1, Len(stack) - 1)
                           ELSE SubSeq(stack, 1, Len(stack) - 1) \o <<rest>> \o o.push
               /\ dirsOpen' = dirsOpen + Len(o.push) - (IF o.ret = -1 THEN 1 ELSE 0)
               /\ enumerated' = enumerated (+) Opened(fs, o.push)
               /\ scanRet' = o.ret
               /\ categories' = AddAll(categories, o.add)
               /\ accepted' = accepted \o o.add
               /\ errlog' = errlog \cup o.log
               /\ envFault' = (envFault \/ o.faulted)
               /\ fatal' = IF o.ret = -1 THEN fatal \cup {"traversal"} ELSE fatal
  /\ UNCHANGED <<fs, merged, pc, is_first, total_files, processed,
                 exitStatus, reported, outputOpen, srcOpen, run, prevOut,
                 prevExit, written, input, inputSegs, result, sinkFailed>>

\* scan_directory: readdir returns NULL; closedir and return 0.
ScanReturn ==
  /\ pc = "scan" /\ scanRet = 0 /\ stack # <<>>
  /\ stack[Len(stack)].todo = {}
  /\ stack' = SubSeq(stack, 1, Len(stack) - 1)
  /\ dirsOpen' = dirsOpen - 1
  /\ UNCHANGED <<fs, merged, pc, scanRet, categories, is_first,
                 total_files, processed, exitStatus, reported, outputOpen,
                 srcOpen, errlog, run, prevOut, prevExit, envFault, accepted,
                 written, fatal, input, inputSegs, result, sinkFailed, enumerated>>

\* A variant that returns -1 without closedir.
ScanUnwind_leak ==
  /\ pc = "scan" /\ scanRet = -1 /\ stack # <<>>
  /\ stack' = SubSeq(stack, 1, Len(stack) - 1)
  /\ UNCHANGED <<fs, merged, pc, scanRet, categories, is_first,
                 total_files, processed, exitStatus, reported, outputOpen,
                 dirsOpen, srcOpen, errlog, run, prevOut, prevExit, envFault,
                 accepted, written, fatal, input, inputSegs, result,
                 sinkFailed, enumerated>>

\* scan_directory: the recursive call returned -1; closedir and return -1.
ScanUnwind ==
  /\ pc = "scan" /\ scanRet = -1 /\ stack # <<>>
  /\ stack' = SubSeq(stack, 1, Len(stack) - 1)
  /\ dirsOpen' = dirsOpen - 1
  /\ UNCHANGED <<fs, merged, pc, scanRet, categories, is_first,
                 total_files, processed, exitStatus, reported, outputOpen,
                 srcOpen, errlog, run, prevOut, prevExit, envFault, accepted,
                 written, fatal, input, inputSegs, result, sinkFailed, enumerated>>

(***************************************************************************)
(* Category store and merger                                               *)
(***************************************************************************)
\* The place of x in the sorted sequence s: after every element not above it.
InsertSorted(s, x) ==
  LET k == Cardinality({i \in 1..Len(s) : compare_strings(s[i], x) <= 0})
  IN  SubSeq(s, 1, k) \o <<x>> \o SubSeq(s, k + 1, Len(s))

RECURSIVE SortAscending(_)
SortAscending(items) ==
  IF items = <<>> THEN <<>>
  ELSE InsertSorted(SortAscending(Tail(items)), Head(items))

\* A variant that leaves the list in the order of discovery.
qsort_unsorted(items) == items

\* qsort(items, count, sizeof(char *), compare_strings)
qsort(items) == SortAscending(items)

RECURSIVE SumCounts(_, _)
SumCounts(cats, c) ==
  IF c = CAT_COUNT THEN 0 ELSE Len(cats[c]) + SumCounts(cats, c + 1)

\* The (category, path) pairs in the order main's two nested loops visit them,
\* from category c on.
RECURSIVE MergeFrom(_, _)
MergeFrom(cats, c) ==
  IF c = CAT_COUNT THEN <<>>
  ELSE [i \in 1..Len(cats[c]) |-> [cat |-> c, path |-> cats[c][i]]]
         \o MergeFrom(cats, c + 1)

\* A variant of the loops that visits the categories from the last to the first.
RECURSIVE MergeDownFrom(_, _)
MergeDownFrom(cats, c) ==
  IF c < CAT_MAKEFILE THEN <<>>
  ELSE [i \in 1..Len(cats[c]) |-> [cat |-> c, path |-> cats[c][i]]]
         \o MergeDownFrom(cats, c - 1)

MergeSeq_descending(cats) == MergeDownFrom(cats, CAT_COUNT - 1)

MergeSeq(cats) == MergeFrom(cats, CAT_MAKEFILE)

Preamble  == [k |-> "preamble"]
Header(p) == [k |-> "header", path |-> p]
Content(n) == [k |-> "content", of |-> n]
Footer(p) == [k |-> "footer", path |-> p]

Written(ret, out, first, log, tag, faulted, opened, closed, lost) ==
  [ret |-> ret, out |-> out, is_first |-> first, log |-> log, tag |-> tag,
   faulted |-> faulted, opened |-> opened, closed |-> closed, lost |-> lost]

\* *is_first is cleared before the size of the file is tested.
write_file_flag_early(F, path, first) ==
  LET n == Stat(F, path)
      banner == IF first THEN <<Preamble>> ELSE <<>>
      head == banner \o <<Header(path)>>
  IN
  IF n = NoEnt \/ ~F[n].perm
  THEN {Written(-1, <<>>, first, {<<"Error opening", path>>}, {"open"}, FALSE, 0, 0, {})}
  ELSE IF F[n].size = 0
  THEN {Written(0, <<>>, FALSE, {}, {}, FALSE, 1, 1, {})}
  ELSE { Written(-1, head, FALSE, {<<"Write error for", path>>}, {"write"}, TRUE, 1, 1, {Content(n)}),
         Written(-1, head, FALSE, {<<"Read error for", path>>}, {"read"}, TRUE, 1, 1, {}),
         Written(0, head \o <<Content(n), Footer(path)>>, FALSE, {}, {}, FALSE, 1, 1, {}) }

\* The result of fwrite is not tested.
write_file_unchecked(F, path, first) ==
  LET n == Stat(F, path)
      banner == IF first THEN <<Preamble>> ELSE <<>>
      head == banner \o <<Header(path)>>
  IN
  IF n = NoEnt \/ ~F[n].perm
  THEN {Written(-1, <<>>, first, {<<"Error opening", path>>}, {"open"}, FALSE, 0, 0, {})}
  ELSE IF F[n].size = 0
  THEN {Written(0, <<>>, first, {}, {}, FALSE, 1, 1, {})}
  ELSE { Written(0, head \o <<Footer(path)>>, FALSE, {}, {"write"}, TRUE, 1, 1, {Content(n)}),
         Written(-1, head, FALSE, {<<"Read error for", path>>}, {"read"}, TRUE, 1, 1, {}),
         Written(0, head \o <<Content(n), Footer(path)>>, FALSE, {}, {}, FALSE, 1, 1, {}) }

\* write_file(dest, path, &is_first) in every way it can end: the value
\* returned, what was appended to dest, the new *is_first.  A file is read in
\* one fread of at most 8192 bytes; that fread, or the fwrite of what it read,
\* may fail (faulted).
write_file(F, path, first) ==
  LET n == Stat(F, path)
      banner == IF first THEN <<Preamble>> ELSE <<>>
      head == banner \o <<Header(path)>>
  IN
  IF n = NoEnt \/ ~F[n].perm
  THEN {Written(-1, <<>>, first, {<<"Error opening", path>>}, {"open"}, FALSE, 0, 0, {})}
  ELSE IF F[n].size = 0
  THEN {Written(0, <<>>, first, {}, {}, FALSE, 1, 1, {})}
  ELSE { Written(-1, head, FALSE, {<<"Write error for", path>>}, {"write"}, TRUE, 1, 1, {Content(n)}),
         Written(-1, head, FALSE, {<<"Read error for", path>>}, {"read"}, TRUE, 1, 1, {}),
         Written(0, head \o <<Content(n), Footer(path)>>, FALSE, {}, {}, FALSE, 1, 1, {}) }

\* write_file when one of its fprintf calls (the preamble, the header, the
\* footer) fails: the chunk is not written, the result of fprintf is not
\* looked at, and the function goes on.
write_file_fprintf_fails(F, path, first) ==
  LET n == Stat(F, path)
      banner == IF first THEN <<Preamble>> ELSE <<>>
      body == <<Content(n), Footer(path)>>
  IN
  IF n = NoEnt \/ ~F[n].perm \/ F[n].size = 0 THEN {}
  ELSE { Written(0, banner \o body, FALSE, {}, {}, TRUE, 1, 1, {Header(path)}),
         Written(0, banner \o <<Header(path), Content(n)>>, FALSE, {}, {}, TRUE, 1, 1,
                 {Footer(path)}) } \cup
       ( IF first
         THEN {Written(0, <<Header(path)>> \o body, FALSE, {}, {}, TRUE, 1, 1, {Preamble})}
         ELSE {} )

\* main: scan_directory(".") returned -1.
MainScanFailed ==
  /\ pc = "scan" /\ stack = <<>> /\ scanRet = -1
  /\ categories' = EmptyLists
  /\ exitStatus' = EXIT_FAILURE
  /\ pc' = "exit"
  /\ UNCHANGED <<fs, merged, stack, scanRet, is_first, total_files, processed,
                 reported, outputOpen, dirsOpen, srcOpen, errlog, run, prevOut,
                 prevExit, envFault, accepted, written, fatal, input,
                 inputSegs, result, sinkFailed, enumerated>>

\* main: scan_directory(".") returned 0; fopen("merged.txt", "w"), then the
\* qsort of every category and the count of the files.
MainOpenOutput ==
  /\ pc = "scan" /\ stack = <<>> /\ scanRet = 0
  /\ \E ok \in BOOLEAN :
       IF ok
       THEN /\ fs' = WithMerged(fs)
            /\ merged' = <<>>
            /\ outputOpen' = outputOpen + 1
            /\ is_first' = TRUE
            /\ processed' = 0
            /\ categories' = [c \in Categories |-> qsort(categories[c])]
            /\ total_files' = SumCounts(categories, CAT_MAKEFILE)
            /\ pc' = "merge"
            /\ UNCHANGED <<exitStatus, errlog, envFault, fatal>>
       ELSE /\ errlog' = errlog \cup {<<"Error creating output", n_merged>>}
            /\ categories' = EmptyLists
            /\ exitStatus' = EXIT_FAILURE
            /\ envFault' = TRUE
            /\ fatal' = fatal \cup {"create"}
            /\ pc' = "exit"
            /\ UNCHANGED <<fs, merged, outputOpen, is_first, processed, total_files>>
  /\ UNCHANGED <<stack, scanRet, reported, dirsOpen, srcOpen, run, prevOut,
                 prevExit, accepted, written, input, inputSegs, result, sinkFailed, enumerated>>

\* main: one iteration of the merge loops: write_file on the next path, then
\* either the early return or processed++.
MergeFile ==
  /\ pc = "merge" /\ processed < Len(MergeSeq(categories))
  /\ LET item == MergeSeq(categories)[processed + 1]
     IN  \E w \in write_file(fs, item.path, is_first) :
               /\ w.faulted => ~envFault
               /\ merged' = merged \o w.out
               /\ is_first' = w.is_first
               /\ srcOpen' = srcOpen + w.opened - w.closed
               /\ errlog' = errlog \cup w.log
               /\ envFault' = (envFault \/ w.faulted)
               /\ fatal' = fatal \cup w.tag
               /\ sinkFailed' = sinkFailed \cup w.lost
               /\ written' = IF \E i \in 1..Len(w.out) : w.out[i].k = "header"
                             THEN Append(written, item) ELSE written
               /\ IF w.ret = -1
                  THEN /\ outputOpen' = outputOpen - 1
                       /\ categories' = EmptyLists
                       /\ exitStatus' = EXIT_FAILURE
                       /\ pc' = "exit"
                       /\ processed' = processed
                  ELSE /\ processed' = processed + 1
                       /\ UNCHANGED <<outputOpen, categories, exitStatus, pc>>
  /\ UNCHANGED <<fs, stack, scanRet, total_files, reported, dirsOpen, run,
                 prevOut, prevExit, accepted, input, inputSegs, result, enumerated>>

\* main: both loops are done; fclose(output), the completion message, return.
MainFinish ==
  /\ pc = "merge" /\ processed = Len(MergeSeq(categories))
  /\ outputOpen' = outputOpen - 1
  /\ categories' = EmptyLists
  /\ reported' = total_files
  /\ exitStatus' = EXIT_SUCCESS
  /\ pc' = "exit"
  /\ UNCHANGED <<fs, merged, stack, scanRet, is_first, total_files, processed,
                 dirsOpen, srcOpen, errlog, run, prevOut, prevExit, envFault,
                 accepted, written, fatal, input, inputSegs, result, sinkFailed, enumerated>>

\* The program is started again in the same working directory.
RunAgain ==
  /\ pc = "exit" /\ run < MaxRuns /\ ~envFault
  /\ run' = run + 1
  /\ prevOut' = merged
  /\ prevExit' = exitStatus
  /\ pc' = "main"
  /\ exitStatus' = NoExit
  /\ reported' = NoExit
  /\ scanRet' = 0
  /\ is_first' = TRUE
  /\ total_files' = 0
  /\ processed' = 0
  /\ errlog' = {}
  /\ accepted' = <<>>
  /\ written' = <<>>
  /\ fatal' = {}
  /\ sinkFailed' = {}
  /\ enumerated' = EmptyBag
  /\ UNCHANGED <<fs, merged, stack, categories, outputOpen, dirsOpen, srcOpen,
                 envFault, input, inputSegs, result>>

\* The state in which the program is first started on tree t.
Started(t) ==
  /\ fs = TreeFs(t)
  /\ merged = NoFile
  /\ stack = <<>>
  /\ scanRet = 0
  /\ categories = EmptyLists
  /\ is_first = TRUE
  /\ total_files = 0
  /\ processed = 0
  /\ exitStatus = NoExit
  /\ reported = NoExit
  /\ outputOpen = 0
  /\ dirsOpen = 0
  /\ srcOpen = 0
  /\ errlog = {}
  /\ run = 1
  /\ prevOut = NoFile
  /\ prevExit = NoExit
  /\ envFault = FALSE
  /\ accepted = <<>>
  /\ written = <<>>
  /\ fatal = {}
  /\ sinkFailed = {}
  /\ enumerated = EmptyBag

Init ==
  /\ \E t \in Trees : Started(t)
  /\ pc = "main"
  /\ input = <<>>
  /\ inputSegs = <<>>
  /\ result = NoResult

Next ==
  \/ MainScan
  \/ ScanEntry
  \/ ScanReturn
  \/ ScanUnwind
  \/ MainScanFailed
  \/ MainOpenOutput
  \/ MergeFile
  \/ MainFinish
  \/ RunAgain

Spec == Init /\ [][Next]_vars

(***************************************************************************)
(* The program on an output stream whose formatted writes may fail         *)
(***************************************************************************)
\* main: one iteration of the merge loops, where an fprintf of write_file may
\* fail as well.
MergeFileSinkFaults ==
  /\ pc = "merge" /\ processed < Len(MergeSeq(categories))
  /\ LET item == MergeSeq(categories)[processed + 1]
     IN  \E w \in write_file(fs, item.path, is_first)
                     \cup write_file_fprintf_fails(fs, item.path, is_first) :
               /\ w.faulted => ~envFault
               /\ merged' = merged \o w.out
               /\ is_first' = w.is_first
               /\ srcOpen' = srcOpen + w.opened - w.closed
               /\ errlog' = errlog \cup w.log
               /\ envFault' = (envFault \/ w.faulted)
               /\ fatal' = fatal \cup w.tag
               /\ sinkFailed' = sinkFailed \cup w.lost
               /\ written' = IF \E i \in 1..Len(w.out) : w.out[i].k = "header"
                             THEN Append(written, item) ELSE written
               /\ IF w.ret = -1
                  THEN /\ outputOpen' = outputOpen - 1
                       /\ categories' = EmptyLists
                       /\ exitStatus' = EXIT_FAILURE
                       /\ pc' = "exit"
                       /\ processed' = processed
                  ELSE /\ processed' = processed + 1
                       /\ UNCHANGED <<outputOpen, categories, exitStatus, pc>>
  /\ UNCHANGED <<fs, stack, scanRet, total_files, reported, dirsOpen, run,
                 prevOut, prevExit, accepted, input, inputSegs, result, enumerated>>

NextSinkFaults ==
  \/ MainScan
  \/ ScanEntry
  \/ ScanReturn
  \/ ScanUnwind
  \/ MainScanFailed
  \/ MainOpenOutput
  \/ MergeFileSinkFaults
  \/ MainFinish
  \/ RunAgain

SpecSinkFaults == Init /\ [][NextSinkFaults]_vars

(***************************************************************************)
(* The exclusion filter and the classifier on their own                    *)
(***************************************************************************)
\* The main program at rest while a pure function is applied.
Idle ==
  /\ Started({})
  /\ pc = "pure"
  /\ result = NoResult

\* The longest path (in names) handed to contains_excluded_dir.
MaxSegs == 3

SegNames ==
  { n_dot, n_build, n_src, n_docs, n__build,
    <<"b","u","i","l","d","s">>, <<"m","y","b","u","i","l","d">>,
    <<"B","u","i","l","d">>, <<".","g","i","t">>, <<"l","o","g">>,
    <<"l","o","g","s">> }

SegSeqs == UNION {[1..n -> SegNames] : n \in 1..MaxSegs}

RECURSIVE JoinWith(_, _)
JoinWith(segs, sep) ==
  IF Len(segs) = 1 THEN segs[1]
  ELSE segs[1] \o sep \o JoinWith(Tail(segs), sep)

InitFilter ==
  /\ Idle
  /\ inputSegs \in SegSeqs
  /\ \E lead \in {<<>>, <<"/">>}, sep \in {<<"/">>, <<"/","/">>}, trail \in {<<>>, <<"/">>} :
       input = lead \o JoinWith(inputSegs, sep) \o trail

ApplyFilter ==
  /\ pc = "pure" /\ result = NoResult
  /\ result' = <<contains_excluded_dir(input)>>
  /\ UNCHANGED <<fs, merged, pc, stack, scanRet, categories, is_first,
                 total_files, processed, exitStatus, reported, outputOpen,
                 dirsOpen, srcOpen, errlog, run, prevOut, prevExit, envFault,
                 accepted, written, fatal, input, inputSegs, sinkFailed, enumerated>>

SpecFilter == InitFilter /\ [][ApplyFilter]_vars

\* The number of pieces a file name handed to categorize_file is made of.
MaxParts == 2

Pieces ==
  {BUILD_FILES[i].filename : i \in 1..BUILD_FILES_COUNT} \cup
  { <<".","h">>, <<".","h","p","p">>, <<".","h","x","x">>, <<".","h","h">>,
    <<".","c">>, <<".","c","p","p">>, <<".","c","x","x">>, <<".","c","c">>,
    <<".","t","x","t">>, <<"x">>, <<".">> }

PieceSeqs == UNION {[1..n -> Pieces] : n \in 1..MaxParts}

InitClassify ==
  /\ Idle
  /\ inputSegs \in PieceSeqs
  /\ input = JoinWith(inputSegs, <<>>)

ApplyClassify ==
  /\ pc = "pure" /\ result = NoResult
  /\ result' = <<categorize_file(input)>>
  /\ UNCHANGED <<fs, merged, pc, stack, scanRet, categories, is_first,
                 total_files, processed, exitStatus, reported, outputOpen,
                 dirsOpen, srcOpen, errlog, run, prevOut, prevExit, envFault,
                 accepted, written, fatal, input, inputSegs, sinkFailed, enumerated>>

SpecClassify == InitClassify /\ [][ApplyClassify]_vars

(***************************************************************************)
(* Properties                                                              *)
(***************************************************************************)
\* The names of the exclusion set.
ExclusionSet == {EXCLUDED_DIRS[i] : i \in 1..EXCLUDED_DIRS_COUNT}

\* a is before or equal to b in byte-wise lexicographic order.
LexLeq(a, b) ==
  \/ IsPrefixOf(a, b)
  \/ \E k \in 1..Len(a) :
       /\ k <= Len(b)
       /\ SubSeq(a, 1, k - 1) = SubSeq(b, 1, k - 1)
       /\ Ord[a[k]] < Ord[b[k]]

\* The position in the order of discovery of the entry stored as (c, p).
Discovered(c, p) ==
  {i \in 1..Len(accepted) : accepted[i].cat = c /\ accepted[i].path = p}

SuccessfulExit == pc = "exit" /\ exitStatus = EXIT_SUCCESS

\* C1: the files written to merged.txt are grouped by category in the order
\* make, meson, cmake, autotools, ninja, bazel, qmake, scons, header, source:
\* a file written later never belongs to an earlier category than a file
\* written before it, and each is written under the category the walk
\* stored it in, whatever the order of discovery.
C1_CategoryOrder ==
  /\ \A i, j \in 1..Len(written) : i < j => written[i].cat <= written[j].cat
  /\ \A i \in 1..Len(written) : Discovered(written[i].cat, written[i].path) # {}

\* Two files of different categories, discovered in the order opposite to
\* the category order, were written.
C1_Witness ==
  /\ SuccessfulExit
  /\ Len(written) = 2 /\ Len(accepted) = 2
  /\ written[1].cat < written[2].cat
  /\ accepted[1].cat = written[2].cat /\ accepted[1].path = written[2].path
  /\ accepted[2].cat = written[1].cat

\* C2: within one category the files are written in byte-wise lexicographic
\* (strcmp) order of their absolute paths.
C2_SortedWithinCategory ==
  \A i \in 1..(Len(written) - 1) :
     written[i].cat = written[i + 1].cat =>
        LexLeq(written[i].path, written[i + 1].path)

\* Two files of one category, discovered in the order opposite to the
\* lexicographic order of their paths, were written.
C2_Witness ==
  /\ SuccessfulExit
  /\ Len(written) = 2 /\ Len(accepted) = 2
  /\ written[1].cat = written[2].cat
  /\ written[1].path # written[2].path
  /\ accepted[1].path = written[2].path
  /\ accepted[2].path = written[1].path

\* The node lies beneath a directory whose name is in the exclusion set.
BeneathExcluded(node) ==
  \E k \in 1..(Len(node) - 1) : node[k] \in ExclusionSet

\* The files whose content is in merged.txt.
ContentNodes ==
  IF merged = NoFile THEN {}
  ELSE {merged[i].of : i \in {j \in 1..Len(merged) : merged[j].k = "content"}}

AcceptedNodes == {accepted[i].node : i \in 1..Len(accepted)}

\* C3 as claimed: no file located beneath a directory whose name is in the
\* exclusion set is ever appended to the lists or has its content written,
\* symbolic links included.
C3_NothingBeneathExcluded ==
  \A n \in AcceptedNodes \cup ContentNodes : ~BeneathExcluded(n)

\* C3 amended: the walk never passes through a directory whose name is in the
\* exclusion set, at any depth: every entry appended was reached by a path
\* with no such component, and an entry that is not a symbolic link is the
\* file stored.  A file beneath an excluded directory is stored or written
\* only as the target of a symbolic link found outside such directories.
C3_TraversalPathNotExcluded ==
  /\ \A i \in 1..Len(accepted) :
        /\ \A k \in 1..Len(accepted[i].entry) : accepted[i].entry[k] \notin ExclusionSet
        /\ ~accepted[i].link => accepted[i].node = accepted[i].entry
        /\ BeneathExcluded(accepted[i].node) => accepted[i].link
  /\ run = 1 => ContentNodes \subseteq AcceptedNodes

\* A tree with a classifiable file in src/build was walked and merged, other
\* files were stored, and that file was not.
C3_Witness ==
  /\ SuccessfulExit
  /\ <<n_src, n_build, n_gen_c>> \in DOMAIN fs
  /\ accepted # <<>>
  /\ ContentNodes # {}
  /\ <<n_src, n_build, n_gen_c>> \notin AcceptedNodes \cup ContentNodes

DanglingLinkMet ==
  \E m \in errlog : m[1] = "Error accessing symlink target"

\* C4 as claimed: a dangling symbolic link is logged and skipped; the walk
\* goes on and completes, and merged.txt is produced.
C4_DanglingLinkIsSkipped ==
  DanglingLinkMet =>
    /\ scanRet = 0
    /\ pc = "exit" => (merged # NoFile /\ exitStatus = EXIT_SUCCESS)

\* C5: a second run on the unchanged tree leaves merged.txt and the exit
\* status as the first run left them, whatever order the entries are
\* enumerated in by either run, and never stores the merged.txt of the
\* first run.
C5_SecondRunIdentical ==
  /\ (run > 1 /\ pc = "exit" /\ ~envFault) =>
        (merged = prevOut /\ exitStatus = prevExit)
  /\ <<n_merged>> \notin AcceptedNodes

\* The second run found merged.txt in the tree, discovered two files in the
\* order opposite to the one they are written in, and left the same output.
C5_Witness ==
  /\ run = 2 /\ SuccessfulExit /\ ~envFault
  /\ <<n_merged>> \in DOMAIN fs
  /\ Len(written) = 2 /\ Len(accepted) = 2
  /\ accepted[1].path = written[2].path /\ accepted[1].path # written[1].path
  /\ merged = prevOut /\ Len(merged) > 1

Positions(kind) ==
  IF merged = NoFile THEN {}
  ELSE {i \in 1..Len(merged) : merged[i].k = kind}

\* C6: the preamble is written exactly once, before the first file header,
\* if a non-empty file is written, and never otherwise; a zero-byte file
\* adds nothing to merged.txt and leaves is_first set.
C6_PreambleOnce ==
  /\ Positions("header") = {} => Positions("preamble") = {}
  /\ Positions("header") # {} =>
        (Positions("preamble") = {1} /\ 2 \in Positions("header"))
  /\ \A n \in ContentNodes : fs[n].size > 0
  /\ \A i \in Positions("header") : fs[Stat(fs, merged[i].path)].size > 0
  /\ pc = "merge" => (is_first <=> Positions("header") = {})

\* A zero-byte file was passed over, is_first stayed set, and the next file
\* was written after the preamble.
C6_Witness ==
  /\ pc = "merge" /\ processed = 2
  /\ Len(written) = 1
  /\ merged[1] = Preamble /\ merged[2].k = "header"
  /\ fs[Stat(fs, MergeSeq(categories)[1].path)].size = 0

\* C7: main returns 0 exactly when no fatal error occurred (the traversal
\* returned 0, merged.txt was created, every file was opened, read and its
\* content written) and EXIT_FAILURE otherwise; with no fatal error and no
\* file stored, merged.txt exists and is empty.
C7_ExitStatus ==
  pc = "exit" =>
    /\ exitStatus \in {EXIT_SUCCESS, EXIT_FAILURE}
    /\ exitStatus = EXIT_SUCCESS <=> fatal = {}
    /\ (fatal = {} /\ accepted = <<>>) => merged = <<>>

\* The program ran on the empty directory: status 0 and an empty merged.txt.
C7_Witness ==
  /\ pc = "exit" /\ run = 1
  /\ DOMAIN fs = {<<>>, <<n_merged>>}
  /\ exitStatus = EXIT_SUCCESS
  /\ merged = <<>>

\* C8: contains_excluded_dir(path) is true exactly when one of the names
\* between the '/' of the path equals an entry of the exclusion set.
C8_ExcludedIffSegment ==
  result # NoResult =>
    result[1] = (\E k \in 1..Len(inputSegs) : inputSegs[k] \in ExclusionSet)

\* "./builds" was tested and is not excluded.
C8_Witness ==
  /\ inputSegs = <<n_dot, <<"b","u","i","l","d","s">> >>
  /\ input = <<".","/","b","u","i","l","d","s">>
  /\ result = <<FALSE>>

UnderDocsBuild(node) ==
  \E k \in 1..(Len(node) - 2) : node[k] = n_docs /\ node[k + 1] = n__build

\* C9 as claimed: docs/_build is excluded like every directory the README
\* lists: no file beneath ./docs/_build is written to merged.txt.
C9_DocsBuildExcluded ==
  \A n \in ContentNodes : ~UnderDocsBuild(n)

\* Rule i of BUILD_FILES matches the file name f.
RuleMatches(i, f) ==
  LET p == BUILD_FILES[i].filename
  IN  \/ f = p
      \/ /\ p[1] = "."
         /\ Len(f) >= Len(p)
         /\ SubSeq(f, Len(f) - Len(p) + 1, Len(f)) = p

\* C10: categorize_file returns the category of the first rule of BUILD_FILES
\* that matches the name; a name equal to a rule's name gets that rule's
\* category whatever suffix rule also matches.
C10_FirstMatchWins ==
  result # NoResult =>
    LET M == {i \in 1..BUILD_FILES_COUNT : RuleMatches(i, input)}
    IN  /\ M # {} =>
             result[1] = BUILD_FILES[CHOOSE i \in M : \A j \in M : i <= j].category
        /\ \A i \in 1..BUILD_FILES_COUNT :
             input = BUILD_FILES[i].filename => result[1] = BUILD_FILES[i].category

\* "build.ninja", which the rule "build.ninja" and the suffix rule ".ninja"
\* both match, was classified.
C10_Witness ==
  /\ input = <<"b","u","i","l","d",".","n","i","n","j","a">>
  /\ Cardinality({i \in 1..BUILD_FILES_COUNT : RuleMatches(i, input)}) = 2
  /\ result = <<CAT_NINJA>>

\* The last name of a node, and whether it starts with '.'.
LastName(node) == node[Len(node)]

HiddenName(name) == name[1] = "."

\* The categories named by the hidden-file policy.
KeptWhenHidden == {CAT_MAKEFILE, CAT_MESON, CAT_CMAKE, CAT_NINJA, CAT_BAZEL}

C12_FailedWriteIsFatal ==
  sinkFailed # {} => (pc = "exit" /\ exitStatus = EXIT_FAILURE)

\* C13 as claimed: the count printed by the completion message of a
\* successful run is the number of files written to merged.txt (header,
\* content and footer); a zero-byte file, which write_file passes over, is
\* not counted.
C13_ReportedIsWrittenCount ==
  SuccessfulExit => reported = Len(written)

\* The paths held by the list of category c.
Items(c) == {categories[c][i] : i \in 1..Len(categories[c])}

\* C14 as claimed: an absolute path is held by at most one category's list,
\* symbolic links whose own name and target name classify differently
\* included.
C14_OneCategoryPerPath ==
  \A c1, c2 \in Categories : c1 # c2 => Items(c1) \cap Items(c2) = {}

\* The path scan_directory builds for a node it reaches through real
\* directories only.
TraversalPath(node) == n_dot \o JoinSegs(node)

\* The symbolic links the walk meets whose target is a directory.
LinkedDirs ==
  {p \in DOMAIN fs :
     /\ fs[p].kind = "link"
     /\ \A k \in 1..Len(p) : p[k] \notin ExclusionSet
     /\ Stat(fs, TraversalPath(p)) # NoEnt
     /\ fs[Stat(fs, TraversalPath(p))].kind = "dir"}

\* The files of directory d the walk would store when it reads d.
Storable(d) ==
  {f \in Children(fs, d) :
     /\ fs[Append(d, f)].kind = "file"
     /\ categorize_file(f) # CAT_COUNT
     /\ ~HiddenName(f)}

ScanSucceeded == pc = "merge" \/ SuccessfulExit

\* C15 as claimed: a child that is a directory after symbolic links are
\* resolved, and whose traversal path is not excluded, is recursed into by
\* its unresolved path, be it a real directory or a symbolic link to one: the
\* files reachable through a symbolic link to a directory are stored.
C15_LinkedDirectoryRecursed ==
  (ScanSucceeded /\ ~envFault) =>
    \A p \in LinkedDirs : \A f \in Storable(Stat(fs, TraversalPath(p))) :
       \E i \in 1..Len(accepted) :
          accepted[i].via = TraversalPath(p) \o <<"/">> \o f

\* C15 amended: a child that lstat reports as a directory, and whose
\* traversal path is not excluded, is not classified and is recursed into by
\* its path; a symbolic link to a directory is neither classified nor
\* recursed into.  Every entry stored was reached through real directories
\* only, no directory is stored, and a walk that returns 0 has read every
\* real directory outside the excluded ones, but for those beneath a
\* directory whose lstat failed.
C15_RealDirectoriesRecursed ==
  /\ \A i \in 1..Len(accepted) :
        /\ PathSegs(accepted[i].via) = <<n_dot>> \o accepted[i].entry
        /\ fs[accepted[i].node].kind = "file"
  /\ \A d \in BagToSet(enumerated) : fs[d].kind = "dir"
  /\ \A k \in 1..Len(stack) :
        PathSegs(stack[k].dir_path) = <<n_dot>> \o Stat(fs, stack[k].dir_path)
  /\ ScanSucceeded =>
        \A d \in DOMAIN fs :
           ( /\ fs[d].kind = "dir"
             /\ \A k \in 1..Len(d) : d[k] \notin ExclusionSet
             /\ \A k \in 1..Len(d) :
                  <<"Error accessing", TraversalPath(SubSeq(d, 1, k))>> \notin errlog )
              => BagIn(d, enumerated)

\* The tree holds src/a.c and the symbolic link lnk -> src; the walk
\* returned 0 having read the working directory and src, and stored a.c once,
\* by the path ./src/a.c.
C15_Witness ==
  /\ SuccessfulExit /\ run = 1 /\ ~envFault
  /\ <<n_lnk>> \in LinkedDirs
  /\ BagToSet(enumerated) = {<<>>, <<n_src>>}
  /\ Len(accepted) = 1
  /\ accepted[1].via = TraversalPath(<<n_src, n_a_c>>)

\* C16: every handle is released on every exit path: each open DIR belongs
\* to a scan_directory call that has not returned yet, so none is open once
\* the walk has returned, whether with 0 or -1; no source FILE is open
\* outside write_file; the output FILE is open only during the merge and is
\* closed when main returns.
C16_HandlesReleased ==
  /\ dirsOpen = Len(stack)
  /\ srcOpen = 0
  /\ outputOpen = (IF pc = "merge" THEN 1 ELSE 0)
  /\ pc = "exit" => (dirsOpen = 0 /\ srcOpen = 0 /\ outputOpen = 0)

\* The walk failed two directories below the working directory, every call
\* returned -1, and main returned with no handle open.
C16_Witness ==
  /\ pc = "exit" /\ exitStatus = EXIT_FAILURE
  /\ "traversal" \in fatal
  /\ \E d \in BagToSet(enumerated) :
        Len(d) = 2 /\ \E m \in errlog : IsPrefixOf(TraversalPath(d), m[2])
  /\ dirsOpen = 0 /\ outputOpen = 0 /\ srcOpen = 0

\* C17: merged.txt is opened (created or truncated) only after the walk has
\* returned 0.  Until then, and after a run whose walk failed, merged.txt is
\* as the program found it: absent if it was absent, with its former content
\* otherwise; nothing is written while a directory is still being read.
C17_OutputOpenedAfterWalk ==
  /\ pc \in {"main", "scan"} => (merged = prevOut /\ outputOpen = 0)
  /\ (pc = "exit" /\ "traversal" \in fatal) => merged = prevOut
  /\ merged = NoFile <=> <<n_merged>> \notin DOMAIN fs
  /\ merged # prevOut => (stack = <<>> /\ scanRet = 0)
  /\ outputOpen = 1 => (stack = <<>> /\ scanRet = 0)

\* The first run left a merged.txt with content; the walk of the second run
\* failed and merged.txt is as the first run left it.
C17_Witness ==
  /\ run = 2 /\ pc = "exit" /\ exitStatus = EXIT_FAILURE
  /\ "traversal" \in fatal
  /\ prevOut # NoFile /\ Len(prevOut) > 1
  /\ merged = prevOut

\* A scan_directory call is active.
WalkActive == pc = "scan" /\ stack # <<>>

\* The directories no opendir has opened yet.
Unread == {d \in DOMAIN fs : fs[d].kind = "dir" /\ ~BagIn(d, enumerated)}

\* The entries the active calls have not read yet.
RECURSIVE TodoLeft(_)
TodoLeft(frames) ==
  IF frames = <<>> THEN 0
  ELSE Cardinality(Head(frames).todo) + TodoLeft(Tail(frames))

\* What is left of the walk: the directories to open, weighted above the
\* entries one directory can hold, the entries to read and the calls to
\* return from.
WalkMeasure ==
  Cardinality(Unread) * (Cardinality(DOMAIN fs) + 1) + TodoLeft(stack) + Len(stack)

\* The innermost active call has a step to take: the return of -1 from the
\* call below, the return at the end of the directory, or the next entry.
WalkCanStep ==
  LET top == stack[Len(stack)]
  IN  \/ scanRet = -1
      \/ scanRet = 0 /\ top.todo = {}
      \/ /\ scanRet = 0
         /\ \E d_name \in top.todo :
            \E o \in ScanIteration(fs, top.dir_path, d_name) : o.faulted => ~envFault

\* C18: on every finite tree the walk returns (with 0 or with -1), symbolic
\* links to an ancestor directory or to themselves included: while a
\* scan_directory call is active the walk has a next step, and every step
\* lowers a natural number, what is left of the walk; and the walk opens
\* each directory at most once.
C18_WalkTerminates ==
  /\ [](\A d \in BagToSet(enumerated) : CopiesIn(d, enumerated) = 1)
  /\ [](WalkActive => WalkCanStep)
  /\ [][WalkActive => (WalkMeasure' < WalkMeasure /\ WalkMeasure' >= 0)]_vars

\* The tree holds src/up -> .. beside a file in src; the walk read the
\* working directory and src once each and returned 0.
C18_Witness ==
  /\ ScanSucceeded /\ run = 1 /\ ~envFault
  /\ <<n_src, n_up>> \in LinkedDirs
  /\ Stat(fs, TraversalPath(<<n_src, n_up>>)) = <<>>
  /\ enumerated = SetToBag({<<>>, <<n_src>>})
  /\ accepted # <<>>

=============================================================================
